---- MODULE Spec2Model ----
(***************************************************************************)
(* Model of the analysis engine of the Decentralization Readiness Analyzer *)
(* (AnalyzerService, tree-based version) together with its two content     *)
(* providers and the static rule tables.                                   *)
(*                                                                         *)
(* Paths are sequences of path segments (<<"src", "app.js">> stands for    *)
(* "src/app.js"); file contents are records; a source text is the sequence *)
(* of its lines.                                                           *)
(***************************************************************************)
EXTENDS Integers, Sequences, FiniteSets, TLC

\* ------------------------------------------------------------------------
\* Bounds of the analysed projects
\* ------------------------------------------------------------------------

\* largest number of features (manifest identifiers, script entries, source
\* lines, extra root files) of an analysed project
MaxFeatures == 3

\* by how many files a large project exceeds the limits of the fetch planner
MaxOver == 2

\* largest number of analyses requested from the App
MaxRequests == 3

\* ------------------------------------------------------------------------
\* Limits of the fetch planner
\* ------------------------------------------------------------------------

\* .slice(0, 15): nested manifests read in one analysis
NestedLimit == 15

\* .slice(0, 20): source files sampled in one analysis
SourceLimit == 20

\* ------------------------------------------------------------------------
\* JavaScript values
\* ------------------------------------------------------------------------

Undefined == "undefined"

NoPath == <<>>

Range(s) == {s[i] : i \in DOMAIN s}

\* Set.add on an insertion-ordered Set
SetAdd(s, d) == IF d \in Range(s) THEN s ELSE Append(s, d)

RECURSIVE SetAddAll(_, _)
SetAddAll(s, ds) ==
  IF ds = <<>> THEN s ELSE SetAddAll(SetAdd(s, Head(ds)), Tail(ds))

\* ------------------------------------------------------------------------
\* heuristics.js
\* ------------------------------------------------------------------------

Rule(category, riskLevel) == [category |-> category, riskLevel |-> riskLevel]

RiskKeys ==
  {"GENERIC_NETWORK", "firebase", "@firebase/app", "firebase-tools", "aws-sdk",
   "contentful", "sanity", "wordpress-core", "laravel/framework", "django",
   "express", "vercel.json", "netlify.toml", "docker-compose.yml",
   "@auth0/auth0-react", "@clerk/clerk-react", "@supabase/supabase-js",
   "react-ga", "mixpanel-browser"}

\* properties every object literal inherits from Object.prototype
ObjectPrototypeKeys ==
  {"constructor", "toString", "valueOf", "hasOwnProperty", "isPrototypeOf",
   "propertyIsEnumerable", "toLocaleString", "__proto__"}

RISKS ==
  [k \in RiskKeys |->
     CASE k = "GENERIC_NETWORK" -> Rule("External Service", "Medium")
       [] k \in {"firebase", "@firebase/app", "firebase-tools", "aws-sdk",
                 "contentful", "sanity"}
            -> Rule("Critical Infrastructure", "High")
       [] k \in {"wordpress-core", "laravel/framework", "django", "express"}
            -> Rule("Traditional Server", "High")
       [] k \in {"vercel.json", "netlify.toml"}
            -> Rule("Hosting Dependency", "Medium")
       [] k = "docker-compose.yml" -> Rule("Infrastructure Config", "Medium")
       [] k \in {"@auth0/auth0-react", "@clerk/clerk-react"}
            -> Rule("Identity Dependency", "High")
       [] k = "@supabase/supabase-js" -> Rule("Data Dependency", "Medium")
       [] k \in {"react-ga", "mixpanel-browser"} -> Rule("Operational", "Medium")]

\* RISKS[dep] followed by if(rule): the rule of an own key, an inherited
\* member (truthy, without riskLevel or category) or nothing
NoRule == [category |-> "none", riskLevel |-> "none"]

RiskLookup(dep) ==
  IF dep \in RiskKeys THEN RISKS[dep]
  ELSE IF dep \in ObjectPrototypeKeys THEN Rule(Undefined, Undefined)
  ELSE NoRule

OFFLINE_SIGNALS ==
  [PERSISTENCE |-> {"indexedDB", "idb", "localforage", "dexie", "rxdb",
                    "pouchdb", "watermelondb", "sqlite-wasm", "absurd-sql"},
   CACHING |-> {"serviceWorker", "sw-precache", "workbox", "vite-plugin-pwa",
                "next-pwa", "caches.open"},
   INTENT |-> {"navigator.onLine", "window.addEventListener(\"offline\")",
               "backgroundSync", "periodicSync"},
   NATIVE |-> {"tauri", "electron-store", "react-native-fs", "capacitor",
               "cordova"}]

READINESS_LEVELS == {"HIGH", "MEDIUM", "LOW", "UNKNOWN"}

\* READINESS_LEVELS.<key>: a member that is not defined reads as undefined
ReadinessLevel(key) == IF key \in READINESS_LEVELS THEN key ELSE Undefined

\* ------------------------------------------------------------------------
\* Paths: what the string tests of the analyzer see in each path segment
\* ------------------------------------------------------------------------

\* String.length of a segment
NameLen(name) ==
  CASE name = "package.json" -> 12
    [] name = "requirements.txt" -> 16
    [] name = "composer.json" -> 13
    [] name = "firebase.json" -> 13
    [] name = "vercel.json" -> 11
    [] name = "netlify.toml" -> 12
    [] name = "docker-compose.yml" -> 18
    [] name = "fly.toml" -> 8
    [] name = ".env.example" -> 12
    [] name = "Gemfile" -> 7
    [] name = "Gemfile.lock" -> 12
    [] name = "builder.js" -> 10
    [] name = "dist" -> 4
    [] name = "manage.py" -> 9
    [] name = "app.js" -> 6
    [] name = "src" -> 3
    [] name = "repo" -> 4
    [] OTHER -> 1

\* the substrings, among those the analyzer searches for, of a segment
Substrings(name) ==
  CASE name = "package.json" -> {"package.json"}
    [] name = "firebase.json" -> {"firebase"}
    [] name = "vercel.json" -> {"vercel"}
    [] name = ".env.example" -> {"example"}
    [] name \in {"Gemfile", "Gemfile.lock"} -> {"Gemfile"}
    [] name = "builder.js" -> {"build"}
    [] name = "dist" -> {"dist"}
    [] name = "manage.py" -> {"manage.py"}
    [] name = "node_modules" -> {"node_modules"}
    [] name = "wp-admin" -> {"wp-admin"}
    [] OTHER -> {}

\* the suffixes, among those the analyzer tests, of a segment
Suffixes(name) ==
  CASE name = "package.json" -> {"package.json", "json"}
    [] name \in {"composer.json", "firebase.json", "vercel.json"} -> {"json"}
    [] name = "manage.py" -> {"manage.py"}
    [] name \in {"app.js", "builder.js"} -> {".js"}
    [] OTHER -> {}

PathLen(path) ==
  LET RECURSIVE Sum(_)
      Sum(i) == IF i = 0 THEN 0 ELSE NameLen(path[i]) + Sum(i - 1)
  IN IF path = <<>> THEN 0 ELSE Sum(Len(path)) + (Len(path) - 1)

\* path.includes(sub)
Includes(path, sub) == \E i \in DOMAIN path : sub \in Substrings(path[i])

\* path.endsWith(suffix), /suffix$/.test(path)
EndsWith(path, suffix) ==
  path # <<>> /\ suffix \in Suffixes(path[Len(path)])

\* path.startsWith(prefix) for a prefix made of whole segments followed by
\* a separator ("repo/")
StartsWith(path, prefix) ==
  /\ Len(path) > Len(prefix)
  /\ SubSeq(path, 1, Len(prefix)) = prefix

\* path.replace(pathPrefix, '') on a path of the tree
StripPrefix(path, prefix) ==
  IF prefix # <<>> /\ StartsWith(path, prefix)
  THEN SubSeq(path, Len(prefix) + 1, Len(path))
  ELSE path

\* ------------------------------------------------------------------------
\* File contents
\* ------------------------------------------------------------------------

\* deps: the keys of dependencies then devDependencies; scripts: the commands
\* of scripts; require: the keys of require; lines: the lines of a text
Content(kind, ok, deps, scripts, lines) ==
  [kind |-> kind, ok |-> ok, deps |-> deps, scripts |-> scripts,
   lines |-> lines, require |-> <<>>]

\* null: no content
Null == Content("null", FALSE, <<>>, <<>>, <<>>)

\* a JSON manifest: the keys of dependencies then devDependencies and the
\* commands of scripts
Manifest(deps, scripts) == Content("json", TRUE, deps, scripts, <<>>)

\* a PHP-style JSON manifest: its identifiers are the keys of require
Composer(require) == [Manifest(<<>>, <<>>) EXCEPT !.require = require]

\* a non-empty text that JSON.parse rejects
BadJson == Content("json", FALSE, <<>>, <<>>, <<>>)

\* a text file, line by line
Text(lines) == Content("text", TRUE, <<>>, <<>>, lines)

\* c ? ... : null  (the empty string is falsy)
Truthy(c) == c.kind # "null" /\ ~(c.kind = "text" /\ c.lines = <<>>)

\* ------------------------------------------------------------------------
\* The projects analysed
\* ------------------------------------------------------------------------

DepVocab == <<"firebase", "react-ga", "dexie", "workbox", "react", "constructor">>

LineVocab ==
  <<"const x = 1", "fetch(url)", "indexedDB.open()", "tauri", "x.supabase.co">>

ExtraFiles == {"vercel.json", "firebase.json", "Gemfile", "manage.py"}

RECURSIVE Pick(_, _)
Pick(v, S) ==
  IF S = {} THEN <<>>
  ELSE LET m == CHOOSE x \in S : \A y \in S : x <= y
       IN <<v[m]>> \o Pick(v, S \ {m})

SubSeqsOf(v, n) ==
  {Pick(v, S) : S \in {T \in SUBSET (1..Len(v)) : Cardinality(T) <= n}}

PkgChoices ==
  {Null, BadJson}
    \cup {Manifest(d, <<>>) : d \in SubSeqsOf(DepVocab, MaxFeatures)}
    \cup {Manifest(d, <<"tauri dev">>) : d \in SubSeqsOf(DepVocab, MaxFeatures - 1)}

SrcChoices == {Null} \cup {Text(l) : l \in SubSeqsOf(LineVocab, MaxFeatures)}

Features(pkg, src, extra) ==
  Len(pkg.deps) + Len(pkg.scripts) + Len(src.lines)
    + (IF extra = "none" THEN 0 ELSE 1)

File(path, content) == [path |-> path, content |-> content]

\* the files of a project, in directory order
ProjectFiles(pkg, src, extra, wrap) ==
  LET root == IF wrap THEN <<"repo">> ELSE <<>>
  IN (IF pkg = Null THEN <<>> ELSE <<File(root \o <<"package.json">>, pkg)>>)
       \o (IF extra = "none" THEN <<>>
           ELSE <<File(root \o <<extra>>, Text(<<"{}">>))>>)
       \o (IF src = Null THEN <<>> ELSE <<File(root \o <<"src", "app.js">>, src)>>)

\* projects with one root manifest, one extra root file and one source file
SmallProjects ==
  {ProjectFiles(pkg, src, extra, wrap) :
     <<pkg, src, extra, wrap>> \in
       {q \in PkgChoices \X SrcChoices \X (ExtraFiles \cup {"none"}) \X BOOLEAN :
          Features(q[1], q[2], q[3]) <= MaxFeatures}}

\* projects with manifests of the three ecosystems at the root and a nested
\* Node-style manifest
ManifestFiles(req, comp, pkg, nested, wrap) ==
  LET root == IF wrap THEN <<"repo">> ELSE <<>>
      At(path, c) == IF c = Null THEN <<>> ELSE <<File(root \o path, c)>>
  IN At(<<"a", "package.json">>, nested)
       \o At(<<"composer.json">>, comp)
       \o At(<<"package.json">>, pkg)
       \o At(<<"requirements.txt">>, req)

ManifestProjects ==
  {ManifestFiles(req, comp, pkg, nested, wrap) :
     <<req, comp, pkg, nested, wrap>> \in
       {Null, Text(<<"django">>)}
         \X {Null, Composer(<<"laravel/framework">>)}
         \X {Null, Manifest(<<"firebase">>, <<>>), Manifest(<<"react">>, <<>>)}
         \X {Null, BadJson, Manifest(<<"firebase">>, <<>>),
             Manifest(<<"express">>, <<>>)}
         \X BOOLEAN}

\* names of one character, for the folders of a large project
DirNames ==
  <<"a", "b", "c", "d", "e", "f", "g", "h", "i", "j", "k", "l", "m", "n", "o",
    "p", "q", "r", "s", "t", "u", "v", "w", "x", "y", "z">>

\* a large project: folders with an (empty) source file in the first m of
\* them (one level deeper in every other folder) and an (empty) manifest in
\* the first n of them, in directory order
RECURSIVE BulkFiles(_, _, _, _)
BulkFiles(n, m, wrap, k) ==
  LET root == IF wrap THEN <<"repo">> ELSE <<>>
      dir == root \o <<DirNames[k]>>
      sub == IF k % 2 = 1 THEN <<"src">> ELSE <<>>
  IN IF k > n /\ k > m THEN <<>>
     ELSE (IF k <= m THEN <<File(dir \o sub \o <<"app.js">>, Text(<<>>))>>
           ELSE <<>>)
            \o (IF k <= n THEN <<File(dir \o <<"package.json">>, Text(<<>>))>>
                ELSE <<>>)
            \o BulkFiles(n, m, wrap, k + 1)

BulkProjects ==
  {BulkFiles(n, m, wrap, 1) :
     <<n, m, wrap>> \in
       {0, NestedLimit, NestedLimit + MaxOver}
         \X {0, SourceLimit, SourceLimit + MaxOver}
         \X BOOLEAN}

\* files of a project whose place in the tree matters: structure markers
\* (two of each kind), a source file with "build" in its name, one in a
\* build-output folder and one in src, in directory order
LayoutVocab ==
  <<<<"Gemfile">>, <<"Gemfile.lock">>, <<"a", "manage.py">>, <<"builder.js">>,
    <<"dist", "app.js">>, <<"manage.py">>, <<"src", "app.js">>>>

\* blank: every file is empty
LayoutProjects ==
  {[i \in 1..Len(paths) |->
      File(paths[i], IF blank THEN Text(<<>>) ELSE Text(<<"fetch(url)">>))] :
     <<paths, blank>> \in SubSeqsOf(LayoutVocab, Len(LayoutVocab)) \X BOOLEAN}

\* source lines of the four offline vocabularies, next to a network call
SignalVocab ==
  <<"caches.open()", "fetch(url)", "indexedDB.open()", "navigator.onLine",
    "tauri">>

SignalProjects ==
  {ProjectFiles(pkg, Text(l), "none", FALSE) :
     <<pkg, l>> \in {Null, Manifest(<<"react-ga">>, <<>>)}
                      \X (SubSeqsOf(SignalVocab, Len(SignalVocab)) \ {<<>>})}

Projects ==
  SmallProjects \cup ManifestProjects \cup BulkProjects \cup LayoutProjects
    \cup SignalProjects

\* ------------------------------------------------------------------------
\* The content providers (github.js, fileSystem.js) and their environment
\* ------------------------------------------------------------------------

Provider(type, urlOk, meta, treeOk, branch) ==
  [type |-> type, urlOk |-> urlOk, meta |-> meta, treeOk |-> treeOk,
   branch |-> branch]

\* type: which provider; urlOk: parseUrl resolves the locator; meta: answer
\* to the metadata request; treeOk: the listing can be obtained; branch: the
\* default branch of the repository
Providers ==
  {Provider("OFFLINE", TRUE, "ok", TRUE, "local-disk"),
   Provider("OFFLINE", TRUE, "ok", FALSE, "local-disk"),
   Provider("ONLINE", TRUE, "ok", TRUE, "main"),
   Provider("ONLINE", TRUE, "ok", FALSE, "main"),
   Provider("ONLINE", TRUE, "rateLimited", TRUE, "master"),
   Provider("ONLINE", TRUE, "rateLimited", FALSE, "main"),
   Provider("ONLINE", TRUE, "fail", FALSE, "main"),
   Provider("ONLINE", FALSE, "fail", FALSE, "main")}

Entry(path, type) == [path |-> path, type |-> type]

NoInfo == [default_branch |-> Undefined, rateLimited |-> FALSE, isNull |-> TRUE]

\* the metadata request as it would be if 403 and 429 were errors like others
getRepoDetailsFailingOnLimit(e) ==
  IF e.meta = "ok"
  THEN [default_branch |-> e.branch, rateLimited |-> FALSE, isNull |-> FALSE]
  ELSE NoInfo

\* GitHubService.getRepoDetails
getRepoDetails(e) ==
  CASE e.meta = "rateLimited"
         -> [default_branch |-> "master", rateLimited |-> TRUE, isNull |-> FALSE]
    [] e.meta = "ok"
         -> [default_branch |-> e.branch, rateLimited |-> FALSE, isNull |-> FALSE]
    [] OTHER -> NoInfo

\* FileSystemService.getProjectDetails
getProjectDetails ==
  [default_branch |-> "local-disk", rateLimited |-> FALSE, isNull |-> FALSE]

\* the directories FileSystemService.getTree does not enter
SkippedDirs == {"node_modules", ".git", "dist", "build"}

\* the scan as it would be if the directories entered were not listed
ScanLocalFilesOnly(files, out) ==
  LET Entered(f) == ~\E i \in 1..(Len(f.path) - 1) : f.path[i] \in SkippedDirs
      kept == SelectSeq(files, Entered)
  IN out \o [k \in 1..Len(kept) |-> Entry(kept[k].path, "file")]

\* FileSystemService.getTree: every directory is listed before its entries
\* (files: the files of the project in directory order; out: the entries
\* listed so far)
ScanLocal(files, out) ==
  LET Entered(f) == ~\E i \in 1..(Len(f.path) - 1) : f.path[i] \in SkippedDirs
      kept == SelectSeq(files, Entered)
      Block(k) ==
        LET p == kept[k].path
            dirs == [i \in 1..(Len(p) - 1) |-> Entry(SubSeq(p, 1, i), "dir")]
            New(d) ==
              /\ d \notin Range(out)
              /\ ~\E j \in 1..(k - 1) :
                    /\ Len(kept[j].path) > Len(d.path)
                    /\ SubSeq(kept[j].path, 1, Len(d.path)) = d.path
        IN Append(SelectSeq(dirs, New), Entry(p, "file"))
      RECURSIVE Listed(_)
      Listed(k) == IF k = 0 THEN out ELSE Listed(k - 1) \o Block(k)
  IN Listed(Len(kept))

LocalGetTree(e, files) == IF e.treeOk THEN ScanLocal(files, <<>>) ELSE <<>>

\* the listing of the remote provider for a branch: the files of the
\* repository, or no listing (null)
NoTree == <<Entry(<<>>, "null")>>

RemoteGetTree(e, files, branch) ==
  IF e.treeOk /\ branch = e.branch
  THEN [i \in 1..Len(files) |-> Entry(files[i].path, "file")]
  ELSE NoTree

DiskRead(files, path) ==
  IF \E i \in DOMAIN files : files[i].path = path
  THEN files[CHOOSE i \in DOMAIN files : files[i].path = path].content
  ELSE Null

\* the branches GitHubService.getRawFile fetches a path from, one request
\* each, when none of them has it
RawFetches(branch) ==
  IF branch \notin {Undefined, "HEAD"} THEN <<branch>> ELSE <<"main", "master">>

\* GitHubService.getRawFile with a known branch: that branch only
getRawFile(e, files, path, branch) ==
  IF branch = e.branch THEN DiskRead(files, path) ELSE Null

\* FileSystemService.getFileContent
getFileContent(files, path) == DiskRead(files, path)

\* ------------------------------------------------------------------------
\* analyzer: tree discovery and fetch planning
\* ------------------------------------------------------------------------

\* the unwrapping as it would be if the other paths were not compared
DetectPrefixFromFirst(t) ==
  IF Len(t) > 0 /\ Len(t[1].path) > 1 THEN <<t[1].path[1]>> ELSE <<>>

\* Smart Unwrapping: the first path up to and including its first separator,
\* if every path of the tree starts with it
DetectPrefix(t) ==
  IF Len(t) > 0 /\ Len(t[1].path) > 1
       /\ \A i \in DOMAIN t : StartsWith(t[i].path, <<t[1].path[1]>>)
  THEN <<t[1].path[1]>>
  ELSE <<>>

fileExists(t, prefix, path) ==
  \E i \in DOMAIN t : t[i].path = prefix \o path /\ t[i].type = "file"

criticalFiles ==
  <<"package.json", "requirements.txt", "composer.json", "firebase.json",
    "vercel.json", "netlify.toml", "docker-compose.yml", "fly.toml",
    ".env.example">>

hostingConfigs ==
  {"firebase.json", "vercel.json", "netlify.toml", "fly.toml",
   "docker-compose.yml"}

Promise(name, type) == [name |-> name, type |-> type]

\* A. the fixed candidates that exist, or all of them when rate limited
CriticalPromises(t, prefix, limited) ==
  LET Wanted(f) == fileExists(t, prefix, <<f>>) \/ limited
      wanted == SelectSeq(criticalFiles, Wanted)
  IN [i \in 1..Len(wanted) |->
        Promise(<<wanted[i]>>,
                IF wanted[i] \in hostingConfigs THEN "config" ELSE "dep")]

structureChecks ==
  <<[pattern |-> "manage.py", atEnd |-> TRUE, signal |-> "Django Backend", id |-> "django"],
    [pattern |-> "wp-admin", atEnd |-> FALSE, signal |-> "WordPress", id |-> "wordpress"],
    [pattern |-> "Gemfile", atEnd |-> FALSE, signal |-> "Ruby/Rails", id |-> "ruby"],
    [pattern |-> ".sol", atEnd |-> TRUE, signal |-> "Smart Contracts (Solidity)", id |-> "solidity"],
    [pattern |-> "Cargo.toml", atEnd |-> TRUE, signal |-> "Rust/Cargo", id |-> "rust"]>>

\* check.pattern.test(node.path)
PatternTest(check, path) ==
  IF check.atEnd THEN EndsWith(path, check.pattern)
  ELSE Includes(path, check.pattern)

Finding(source, signal, arg, risk, category, failureMode, file, line) ==
  [source |-> source, signal |-> signal, arg |-> arg, risk |-> risk,
   category |-> category, failureMode |-> failureMode, file |-> file,
   line |-> line]

\* the structure hints as they would be if every matching node gave a signal
StructureScanEveryMatch(t, acc) ==
  LET hits == {h \in (DOMAIN t) \X (DOMAIN structureChecks) :
                 PatternTest(structureChecks[h[2]], t[h[1]].path)}
      Before(x, y) == x[1] < y[1] \/ (x[1] = y[1] /\ x[2] <= y[2])
      RECURSIVE Order(_)
      Order(S) ==
        IF S = {} THEN <<>>
        ELSE LET h == CHOOSE x \in S : \A y \in S : Before(x, y)
             IN <<h>> \o Order(S \ {h})
      ord == Order(hits)
  IN [allDeps |-> SetAddAll(acc.allDeps,
                            [i \in 1..Len(ord) |-> structureChecks[ord[i][2]].id]),
      fileSignals |-> acc.fileSignals \o
        [i \in 1..Len(ord) |->
           Finding("Code/Structure", structureChecks[ord[i][2]].signal, "",
                   "Medium", "Structure", "Found <file>", t[ord[i][1]].path, 0)]]

\* B. structure hints (tree.forEach, then structureChecks.forEach): one signal
\* per marker id, for the first node whose path matches, in the order of
\* the nodes and then of the checks
StructureScan(t, acc) ==
  LET Hits(c) == {n \in DOMAIN t : PatternTest(structureChecks[c], t[n].path)}
      First(c) == CHOOSE n \in Hits(c) : \A m \in Hits(c) : n <= m
      found == {c \in DOMAIN structureChecks :
                  Hits(c) # {} /\ structureChecks[c].id \notin Range(acc.allDeps)}
      Before(c, d) == First(c) < First(d) \/ (First(c) = First(d) /\ c <= d)
      RECURSIVE Order(_)
      Order(S) ==
        IF S = {} THEN <<>>
        ELSE LET c == CHOOSE x \in S : \A y \in S : Before(x, y)
             IN <<c>> \o Order(S \ {c})
      ord == Order(found)
  IN [allDeps |-> acc.allDeps \o
                    [i \in 1..Len(ord) |-> structureChecks[ord[i]].id],
      fileSignals |-> acc.fileSignals \o
        [i \in 1..Len(ord) |->
           Finding("Code/Structure", structureChecks[ord[i]].signal, "", "Medium",
                   "Structure", "Found <file>", t[First(ord[i])].path, 0)]]

\* the slice as it would be if the whole list were kept
TakeAll(s, n) == s

\* slice(0, n)
Take(s, n) == SubSeq(s, 1, IF Len(s) < n THEN Len(s) ELSE n)

\* the nested manifests as they would be if the root manifest were not
\* skipped
PkgJsonPathsWithRoot(t, prefix) ==
  LET Nested(f) == EndsWith(f.path, "package.json")
      Quiet(f) ==
        /\ ~Includes(f.path, "node_modules")
        /\ ~Includes(f.path, "test")
        /\ ~Includes(f.path, "example")
      kept == SelectSeq(SelectSeq(t, Nested), Quiet)
  IN Take([i \in 1..Len(kept) |-> StripPrefix(kept[i].path, prefix)],
          NestedLimit)

\* C. nested manifests
PkgJsonPaths(t, prefix) ==
  LET Nested(f) ==
        /\ EndsWith(f.path, "package.json")
        /\ f.path # prefix \o <<"package.json">>
      Quiet(f) ==
        /\ ~Includes(f.path, "node_modules")
        /\ ~Includes(f.path, "test")
        /\ ~Includes(f.path, "example")
      kept == SelectSeq(SelectSeq(t, Nested), Quiet)
  IN Take([i \in 1..Len(kept) |-> StripPrefix(kept[i].path, prefix)],
          NestedLimit)

\* Array.prototype.sort by path length (stable)
RECURSIVE SortByLength(_)
SortByLength(s) ==
  IF s = <<>> THEN <<>>
  ELSE LET rest == SortByLength(Tail(s))
           h == Head(s)
           Shorter(f) == PathLen(f.path) < PathLen(h.path)
           before == SelectSeq(rest, Shorter)
       IN before \o <<h>> \o SubSeq(rest, Len(before) + 1, Len(rest))

\* D. source code sampling
SourceFiles(t, prefix) ==
  LET IsSource(f) == \E x \in {".js", ".ts", ".jsx", ".tsx"} : EndsWith(f.path, x)
      Quiet(f) ==
        /\ ~Includes(f.path, "node_modules")
        /\ ~Includes(f.path, "dist")
        /\ ~Includes(f.path, "build")
      top == Take(SortByLength(SelectSeq(SelectSeq(t, IsSource), Quiet)),
                  SourceLimit)
  IN [i \in 1..Len(top) |-> StripPrefix(top[i].path, prefix)]

FetchPlan(t, prefix, limited) ==
  LET nested == PkgJsonPaths(t, prefix)
      sources == SourceFiles(t, prefix)
  IN CriticalPromises(t, prefix, limited)
       \o [i \in 1..Len(nested) |-> Promise(nested[i], "monorepo-dep")]
       \o [i \in 1..Len(sources) |-> Promise(sources[i], "code-scan")]

\* the gate as it would be if a rate-limited analysis did not read blindly
RequestedWhenListed(t, prefix, limited, path) ==
  \E i \in DOMAIN t : t[i].path = prefix \o path

\* getFile asks the provider only for a path of the tree, unless rate limited
Requested(t, prefix, limited, path) ==
  (\E i \in DOMAIN t : t[i].path = prefix \o path) \/ limited

\* getFile: the content the promise of a planned read is fulfilled with
getFile(e, files, t, prefix, limited, branch, path) ==
  LET targetPath == prefix \o path
  IN IF ~Requested(t, prefix, limited, path) THEN Null
     ELSE IF e.type = "ONLINE" THEN getRawFile(e, files, targetPath, branch)
     ELSE getFileContent(files, targetPath)

\* a request made to the provider
Call(op, path) == [op |-> op, path |-> path]

\* the requests the planned reads make to the provider, in the order issued
FileCalls(plan, t, prefix, limited) ==
  LET Asked(pr) == Requested(t, prefix, limited, pr.name)
      asked == SelectSeq(plan, Asked)
  IN [i \in 1..Len(asked) |-> Call("file", prefix \o asked[i].name)]

\* ------------------------------------------------------------------------
\* analyzer: signal extraction from the results of the reads
\* ------------------------------------------------------------------------

\* the patterns of the code scan that match a line of source text
LineMatches(line) ==
  CASE line = "fetch(url)" -> {"generic"}
    [] line = "indexedDB.open()" -> {"PERSISTENCE"}
    [] line = "tauri" -> {"NATIVE"}
    [] line = "caches.open()" -> {"CACHING"}
    [] line = "navigator.onLine" -> {"INTENT"}
    [] line = "x.supabase.co" -> {"supabase"}
    [] OTHER -> {}

\* the lines (getLineNumber of each match) where a pattern matches
MatchLines(lines, pat) ==
  LET Hit(i) == pat \in LineMatches(lines[i])
  IN SelectSeq([i \in 1..Len(lines) |-> i], Hit)

offlinePatterns == <<"PERSISTENCE", "CACHING", "INTENT", "NATIVE">>

codeRisks ==
  <<[id |-> "firebase", label |-> "Firebase API"],
    [id |-> "google", label |-> "Google API"],
    [id |-> "supabase", label |-> "Supabase API"]>>

\* scripts mention tauri or electron
NativeScript(scripts) ==
  \E i \in DOMAIN scripts : scripts[i] \in {"tauri dev", "electron ."}

Acc(allDeps, fileSignals, configSignals, offlineSignals) ==
  [allDeps |-> allDeps, fileSignals |-> fileSignals,
   configSignals |-> configSignals, offlineSignals |-> offlineSignals]

\* the parsing as it would be if a manifest that cannot be decoded discarded
\* the identifiers collected before it
ParseDepsDiscarding(acc, res) ==
  IF res.type \in {"dep", "monorepo-dep"} /\ EndsWith(res.name, "json")
       /\ res.content.kind = "json"
  THEN IF ~res.content.ok THEN [acc EXCEPT !.allDeps = <<>>]
       ELSE LET keys == SetAddAll(acc.allDeps, res.content.deps)
            IN [acc EXCEPT !.allDeps =
                  IF NativeScript(res.content.scripts)
                  THEN SetAdd(keys, "OFFLINE_NATIVE") ELSE keys]
  ELSE acc

\* 1. Dependency Parsing
ParseDeps(acc, res) ==
  IF res.type \in {"dep", "monorepo-dep"} /\ EndsWith(res.name, "json")
       /\ res.content.kind = "json" /\ res.content.ok
  THEN LET keys == SetAddAll(acc.allDeps, res.content.deps)
       IN [acc EXCEPT !.allDeps =
             IF NativeScript(res.content.scripts)
             THEN SetAdd(keys, "OFFLINE_NATIVE") ELSE keys]
  ELSE acc

\* 2. Config Analysis
ConfigAnalysis(acc, res) ==
  IF res.type = "config"
  THEN LET d1 == IF Includes(res.name, "firebase")
                 THEN SetAdd(acc.allDeps, "firebase-tools") ELSE acc.allDeps
           d2 == IF Includes(res.name, "vercel")
                 THEN SetAdd(d1, "vercel.json") ELSE d1
       IN [acc EXCEPT
             !.configSignals = Append(@,
                Finding("Config", "Config", res.name[1], "Medium", "Hosting",
                        "Platform Specific", res.name, 0)),
             !.allDeps = d2]
  ELSE acc

\* `OFFLINE_${op.cat}`
OfflineDep(cat) ==
  CASE cat = "PERSISTENCE" -> "OFFLINE_PERSISTENCE"
    [] cat = "CACHING" -> "OFFLINE_CACHING"
    [] cat = "INTENT" -> "OFFLINE_INTENT"
    [] cat = "NATIVE" -> "OFFLINE_NATIVE"

\* the scan as it would be if the matches were kept with the signals of the
\* code checks
RECURSIVE OfflineScanAsRisk(_, _, _)
OfflineScanAsRisk(acc, res, c) ==
  IF c > Len(offlinePatterns) THEN acc
  ELSE LET cat == offlinePatterns[c]
           at == MatchLines(res.content.lines, cat)
       IN OfflineScanAsRisk(
            IF at = <<>> THEN acc
            ELSE [acc EXCEPT
                    !.allDeps = SetAdd(@, OfflineDep(cat)),
                    !.fileSignals = @ \o
                       [i \in 1..Len(at) |->
                          Finding("Code/Structure", cat, "", "Medium", "Offline",
                                  "Found in <file>", res.name, at[i])],
                    !.offlineSignals = @ \o
                       [i \in 1..Len(at) |->
                          [file |-> res.name, category |-> cat, line |-> at[i]]]],
            res, c + 1)

RECURSIVE OfflineScan(_, _, _)
OfflineScan(acc, res, c) ==
  IF c > Len(offlinePatterns) THEN acc
  ELSE LET cat == offlinePatterns[c]
           at == MatchLines(res.content.lines, cat)
       IN OfflineScan(
            IF at = <<>> THEN acc
            ELSE [acc EXCEPT
                    !.allDeps = SetAdd(@, OfflineDep(cat)),
                    !.offlineSignals = @ \o
                       [i \in 1..Len(at) |->
                          [file |-> res.name, category |-> cat, line |-> at[i]]]],
            res, c + 1)

RECURSIVE RiskScan(_, _, _)
RiskScan(acc, res, c) ==
  IF c > Len(codeRisks) THEN acc
  ELSE LET at == MatchLines(res.content.lines, codeRisks[c].id)
       IN RiskScan(
            [acc EXCEPT !.fileSignals = @ \o
               [i \in 1..Len(at) |->
                  Finding("Code/Structure", codeRisks[c].label, "", "Medium",
                          "Hardcoded API", "Found in <file>", res.name, at[i])]],
            res, c + 1)

\* 3. Code Scanning
CodeScan(acc, res) ==
  IF res.type = "code-scan"
  THEN LET at == MatchLines(res.content.lines, "generic")
           generic ==
             IF at = <<>> THEN acc
             ELSE [acc EXCEPT
                     !.fileSignals = @ \o
                        [i \in 1..Len(at) |->
                           Finding("Code/Structure", "Generic Network Call", "",
                                   "Medium", "External Service",
                                   "Usage in <file>", res.name, at[i])],
                     !.allDeps = SetAdd(@, "GENERIC_NETWORK")]
       IN RiskScan(OfflineScan(generic, res, 1), res, 1)
  ELSE acc

\* the loop as it would be if the first read without a value ended it
RECURSIVE ProcessResultsUntilFailure(_, _)
ProcessResultsUntilFailure(acc, results) ==
  IF results = <<>> THEN acc
  ELSE LET res == Head(results)
       IN IF Truthy(res.content)
          THEN ProcessResultsUntilFailure(
                 CodeScan(ConfigAnalysis(ParseDeps(acc, res), res), res),
                 Tail(results))
          ELSE acc

\* results.forEach: the fulfilled results with a value, in the order given
RECURSIVE ProcessResults(_, _)
ProcessResults(acc, results) ==
  IF results = <<>> THEN acc
  ELSE LET res == Head(results)
       IN ProcessResults(
            IF Truthy(res.content)
            THEN CodeScan(ConfigAnalysis(ParseDeps(acc, res), res), res)
            ELSE acc,
            Tail(results))

\* ------------------------------------------------------------------------
\* analyzer: verdict logic
\* ------------------------------------------------------------------------

\* the findings of the dependency identifiers, in insertion order
DepFindings(deps) ==
  LET Known(d) == RiskLookup(d) # NoRule
      hits == SelectSeq(deps, Known)
  IN [i \in 1..Len(hits) |->
        Finding("Dependency", "Dep", hits[i], RiskLookup(hits[i]).riskLevel,
                RiskLookup(hits[i]).category, "rule", NoPath, 0)]

Findings(acc) == acc.fileSignals \o acc.configSignals \o DepFindings(acc.allDeps)

CountIf(s, Test(_)) == Len(SelectSeq(s, Test))

HighRiskCount(acc) ==
  LET IsHigh(f) == f.risk = "High"
  IN CountIf(Findings(acc), IsHigh)

\* the count as it was before the signals of the structure and code checks
\* were counted
MediumRiskCountWithoutFileSignals(acc) ==
  LET Counted(f) == f.risk = "Medium" /\ f.source # "Code/Structure"
  IN CountIf(Findings(acc), Counted)

\* the generic network signal of the code scan is not counted here
MediumRiskCount(acc) ==
  LET Counted(f) ==
        /\ f.risk = "Medium"
        /\ ~(f.source = "Code/Structure" /\ f.signal = "Generic Network Call")
  IN CountIf(Findings(acc), Counted)

\* the tally as it would be if the dependency identifiers were not consulted
OffStatsFromCodeOnly(acc) ==
  LET Signal(cat) == \E i \in DOMAIN acc.offlineSignals :
                        acc.offlineSignals[i].category = cat
  IN [persistence |-> Signal("PERSISTENCE"),
      caching |-> Signal("CACHING"),
      native |-> Signal("NATIVE")]

OffStats(acc) ==
  LET Signal(cat) == \E i \in DOMAIN acc.offlineSignals :
                        acc.offlineSignals[i].category = cat
      Dep(cat) == \E d \in Range(acc.allDeps) : d \in OFFLINE_SIGNALS[cat]
  IN [persistence |-> Signal("PERSISTENCE") \/ Dep("PERSISTENCE"),
      caching |-> Signal("CACHING") \/ Dep("CACHING"),
      native |-> Signal("NATIVE") \/ Dep("NATIVE")]

\* the blocker test as it would be if only the category were looked at
HasCloudBlockerByCategoryOnly(findings) ==
  \E i \in DOMAIN findings : findings[i].category = "Critical Infrastructure"

HasCloudBlocker(findings) ==
  \E i \in DOMAIN findings :
     findings[i].category = "Critical Infrastructure" \/ findings[i].risk = "High"

Tier(status, reason) == [status |-> status, reason |-> reason]

\* the hierarchy as it would be if a native shell did not count
OfflineTierWithoutNative(blocker, st) ==
  IF blocker
  THEN Tier("Online-Only", "Critical Cloud Dependencies prevent offline use.")
  ELSE IF st.persistence
  THEN Tier("Offline-Capable", "Strong Local Persistence detected (Offline First).")
  ELSE IF st.caching
  THEN Tier("Partially Offline",
            "Caching or Native Shell detected, but no deep data persistence.")
  ELSE Tier("Online-Only", "No persistence or caching strategy found.")

\* 1. offline capability (strict hierarchy)
OfflineTier(blocker, st) ==
  IF blocker
  THEN Tier("Online-Only", "Critical Cloud Dependencies prevent offline use.")
  ELSE IF st.persistence
  THEN Tier("Offline-Capable", "Strong Local Persistence detected (Offline First).")
  ELSE IF st.caching \/ st.native
  THEN Tier("Partially Offline",
            "Caching or Native Shell detected, but no deep data persistence.")
  ELSE Tier("Online-Only", "No persistence or caching strategy found.")

OfflineVerdict(acc) ==
  LET tier == OfflineTier(HasCloudBlocker(Findings(acc)), OffStats(acc))
  IN [status |-> tier.status, reason |-> tier.reason,
      evidence |-> acc.offlineSignals]

AmbiguityHint ==
  Finding("Analyzer", "Ambiguity", "", "Medium", "Ambiguity",
          "Generic network usage (fetch/axios) without identified endpoint.",
          <<"Multiple">>, 0)

\* the clean pass as it would be if only persistence were asked for
FoundPersistenceOnly(acc) == OffStats(acc).persistence

\* some dependency or offline trait was found
FoundAnything(acc) == Len(acc.allDeps) > 0 \/ OffStats(acc).persistence

\* 2. decentralization readiness: score, architecture and the evidence list
ReadinessVerdict(acc) ==
  LET findings == Findings(acc)
      hasGenericNetwork == "GENERIC_NETWORK" \in Range(acc.allDeps)
      hasOfflineLib == OffStats(acc).persistence
      V(score, architecture, evidence) ==
        [score |-> score, architecture |-> architecture, evidence |-> evidence]
  IN IF HighRiskCount(acc) > 0
     THEN V(ReadinessLevel("LOW"), "Centralized / Server-Required", findings)
     ELSE IF MediumRiskCount(acc) > 0
     THEN V(ReadinessLevel("MEDIUM"), "Hybrid (Client + Services)", findings)
     ELSE IF hasGenericNetwork
     THEN IF hasOfflineLib
          THEN V(ReadinessLevel("HIGH"), "Decentralized / Local-First (with Sync)",
                 findings)
          ELSE V(ReadinessLevel("HUMAN_REVIEW"),
                 "Ambiguous (Unidentified Network Calls)",
                 Append(findings, AmbiguityHint))
     ELSE IF FoundAnything(acc)
     THEN V(ReadinessLevel("HIGH"), "Decentralized / Client-Side", findings)
     ELSE V(ReadinessLevel("UNKNOWN"), "Unknown / Static", findings)

\* ------------------------------------------------------------------------
\* State
\* ------------------------------------------------------------------------

VARIABLES
  env,            \* the provider and its responses (fixed)
  disk,           \* the files of the project and their contents (fixed)
  pc,             \* position of the analysis
  rateLimited,
  defaultBranch,  \* context.defaultBranch
  tree,
  pathPrefix,
  fetchPromises,  \* the planned reads, in the order they were issued
  settled,        \* the promises settled so far, in the order they settled
  allDeps,
  fileSignals,
  configSignals,
  offlineSignals,
  report,         \* the report being built, then returned
  calls,          \* the requests made to the provider by the analysis
  prevReport,     \* the report of the previous analysis of the project
  clock           \* new Date()

\* the state of the App component and the calls of its handlers that have
\* not returned
VARIABLES
  url,            \* useState(''): the text of the input
  loading,        \* useState(false)
  error,          \* useState(null)
  uiReport,       \* useState(null): the report displayed
  mode,           \* useState('online')
  inflight,       \* the calls of handleAnalyze / handleLocalAnalyze awaiting
  requests        \* how many analyses were requested so far

analysisVars ==
  <<env, disk, pc, rateLimited, defaultBranch, tree, pathPrefix, fetchPromises,
    settled, allDeps, fileSignals, configSignals, offlineSignals, report,
    calls, prevReport, clock>>

appVars == <<url, loading, error, uiReport, mode, inflight, requests>>

vars == <<analysisVars, appVars>>

\* report === null
NoUiReport == [id |-> 0, target |-> "null"]

\* function App(): the initial state of the component
AppFresh ==
  /\ url = ""
  /\ loading = FALSE
  /\ error = "null"
  /\ uiReport = NoUiReport
  /\ mode = "online"
  /\ inflight = {}
  /\ requests = 0

NoReport ==
  [repoInfo |-> NoInfo, evidence |-> <<>>, architecture |-> "none",
   score |-> "none",
   offline |-> [status |-> "none", reason |-> "none", evidence |-> <<>>],
   timestamp |-> 0, limitations |-> <<>>]

\* the limitations the report is set up with
Limitations(type, limited, prefix) ==
  <<IF type = "ONLINE" THEN "Tree-Based Network analysis."
    ELSE "Recursive Local analysis.">>
    \o (IF limited
        THEN <<"GitHub API Rate Limit active. Switching to limited Blind Scan.">>
        ELSE IF prefix # <<>> THEN <<"Auto-unwrapped folder">>
        ELSE <<>>)

\* _runAnalysis as a function of the provider and of the files it serves:
\* the reads planned and what the report says, or failed when the metadata
\* request returns nothing
runAnalysis(e, files) ==
  LET info == IF e.type = "ONLINE" THEN getRepoDetails(e) ELSE getProjectDetails
      branch == IF info.rateLimited THEN "master" ELSE info.default_branch
      got == IF e.type = "ONLINE" THEN RemoteGetTree(e, files, branch)
             ELSE LocalGetTree(e, files)
      limited == info.rateLimited \/ got = NoTree
      t == IF got = NoTree THEN <<>> ELSE got
      prefix == DetectPrefix(t)
      plan == FetchPlan(t, prefix, limited)
      results ==
        [i \in 1..Len(plan) |->
           [name |-> plan[i].name, type |-> plan[i].type,
            content |-> getFile(e, files, t, prefix, limited, branch,
                                plan[i].name)]]
      hints == StructureScan(t, [allDeps |-> <<>>, fileSignals |-> <<>>])
      acc == ProcessResults(Acc(hints.allDeps, hints.fileSignals, <<>>, <<>>),
                            results)
      verdict == ReadinessVerdict(acc)
  IN IF ~e.urlOk \/ info.isNull
     THEN [failed |-> TRUE, prefix |-> <<>>, plan |-> <<>>, evidence |-> <<>>,
           score |-> "none",
           architecture |-> "none", offline |-> NoReport.offline,
           limitations |-> <<>>]
     ELSE [failed |-> FALSE, prefix |-> prefix, plan |-> plan,
           evidence |-> verdict.evidence,
           score |-> verdict.score, architecture |-> verdict.architecture,
           offline |-> OfflineVerdict(acc),
           limitations |-> Limitations(e.type, limited, prefix)]

Fresh ==
  /\ rateLimited = FALSE
  /\ defaultBranch = Undefined
  /\ tree = <<>>
  /\ pathPrefix = <<>>
  /\ fetchPromises = <<>>
  /\ settled = <<>>
  /\ allDeps = <<>>
  /\ fileSignals = <<>>
  /\ configSignals = <<>>
  /\ offlineSignals = <<>>
  /\ report = NoReport
  /\ calls = <<>>

Init ==
  /\ env \in Providers
  /\ disk \in Projects
  /\ pc = "idle"
  /\ Fresh
  /\ prevReport = NoReport
  /\ clock = 1
  /\ AppFresh

\* ------------------------------------------------------------------------
\* Operations
\* ------------------------------------------------------------------------

\* analyzeRepo as it would be if the parsed locator were not tested
analyzeRepoWithoutCheck ==
  /\ pc = "idle"
  /\ env.type = "ONLINE"
  /\ pc' = "details"
  /\ defaultBranch' = "main"
  /\ UNCHANGED <<env, disk, rateLimited, tree, pathPrefix, fetchPromises,
                 settled, allDeps, fileSignals, configSignals, offlineSignals,
                 report, calls, prevReport, clock>>
  /\ UNCHANGED appVars

\* analyzeRepo up to the first request
analyzeRepo ==
  /\ pc = "idle"
  /\ env.type = "ONLINE"
  /\ IF ~env.urlOk
     THEN pc' = "failed" /\ UNCHANGED defaultBranch
     ELSE pc' = "details" /\ defaultBranch' = "main"
  /\ UNCHANGED <<env, disk, rateLimited, tree, pathPrefix, fetchPromises,
                 settled, allDeps, fileSignals, configSignals, offlineSignals,
                 report, calls, prevReport, clock>>
  /\ UNCHANGED appVars

\* analyzeLocal up to the first request
analyzeLocal ==
  /\ pc = "idle"
  /\ env.type = "OFFLINE"
  /\ pc' = "details"
  /\ UNCHANGED <<env, disk, rateLimited, defaultBranch, tree, pathPrefix,
                 fetchPromises, settled, allDeps, fileSignals, configSignals,
                 offlineSignals, report, calls, prevReport, clock>>
  /\ UNCHANGED appVars

\* 1. metadata and branch detection
GetDetails ==
  /\ pc = "details"
  /\ LET projectInfo == IF env.type = "ONLINE" THEN getRepoDetails(env)
                        ELSE getProjectDetails
     IN IF projectInfo.isNull
        THEN pc' = "failed" /\ UNCHANGED <<rateLimited, defaultBranch, report>>
        ELSE /\ pc' = "tree"
             /\ rateLimited' = projectInfo.rateLimited
             /\ defaultBranch' = (IF projectInfo.rateLimited THEN "master"
                                  ELSE projectInfo.default_branch)
             /\ report' = [report EXCEPT !.repoInfo = projectInfo]
  /\ calls' = Append(calls, Call("details", <<>>))
  /\ UNCHANGED <<env, disk, tree, pathPrefix, fetchPromises, settled, allDeps,
                 fileSignals, configSignals, offlineSignals, prevReport, clock>>
  /\ UNCHANGED appVars

\* 2. tree scan, smart unwrapping, report setup and the planning of the
\* reads, all issued before the analysis waits for them
TreeScan ==
  /\ pc = "tree"
  /\ LET got == IF env.type = "ONLINE"
                THEN RemoteGetTree(env, disk, defaultBranch)
                ELSE LocalGetTree(env, disk)
         failed == got = NoTree
         limited == rateLimited \/ failed
         t == IF failed THEN <<>> ELSE got
         prefix == DetectPrefix(t)
         hints == StructureScan(t, [allDeps |-> <<>>, fileSignals |-> <<>>])
     IN /\ rateLimited' = limited
        /\ tree' = t
        /\ pathPrefix' = prefix
        /\ report' =
             [report EXCEPT
                !.architecture = "Unknown",
                !.score = ReadinessLevel("UNKNOWN"),
                !.offline = [status |-> "Online-Only",
                             reason |-> "Default assumption.",
                             evidence |-> <<>>],
                !.timestamp = clock,
                !.limitations = Limitations(env.type, limited, prefix)]
        /\ allDeps' = hints.allDeps
        /\ fileSignals' = hints.fileSignals
        /\ fetchPromises' = FetchPlan(t, prefix, limited)
        /\ calls' = Append(calls, Call("tree", <<>>))
                       \o FileCalls(FetchPlan(t, prefix, limited), t, prefix, limited)
  /\ pc' = "fetching"
  /\ UNCHANGED <<env, disk, defaultBranch, settled, configSignals,
                 offlineSignals, prevReport, clock>>
  /\ UNCHANGED appVars

\* the value promise i is fulfilled with
Result(i) ==
  [name |-> fetchPromises[i].name, type |-> fetchPromises[i].type,
   content |-> getFile(env, disk, tree, pathPrefix, rateLimited, defaultBranch,
                       fetchPromises[i].name)]

Pending == DOMAIN fetchPromises \ Range(settled)

\* a read returns a content: its promise is fulfilled with a value
Fulfil(i) ==
  /\ pc = "fetching"
  /\ i \in Pending
  /\ Truthy(Result(i).content)
  /\ settled' = Append(settled, i)
  /\ UNCHANGED <<env, disk, pc, rateLimited, defaultBranch, tree, pathPrefix,
                 fetchPromises, allDeps, fileSignals, configSignals,
                 offlineSignals, report, calls, prevReport, clock>>
  /\ UNCHANGED appVars

\* the reads that return nothing: their promises are fulfilled with null
\* (they contribute nothing, so they are settled together, in the order
\* they were issued)
FulfilNull ==
  /\ pc = "fetching"
  /\ LET IsNull(i) == i \in Pending /\ ~Truthy(Result(i).content)
         nulls == SelectSeq([i \in 1..Len(fetchPromises) |-> i], IsNull)
     IN /\ nulls # <<>>
        /\ settled' = settled \o nulls
  /\ UNCHANGED <<env, disk, pc, rateLimited, defaultBranch, tree, pathPrefix,
                 fetchPromises, allDeps, fileSignals, configSignals,
                 offlineSignals, report, calls, prevReport, clock>>
  /\ UNCHANGED appVars

\* the results as they would be if they were collected as the reads complete
ResultsInCompletionOrder(promises, order) ==
  [k \in 1..Len(promises) |-> Result(order[k])]

\* Promise.allSettled: the results in the order of the promises
SettledResults(promises, order) == [i \in 1..Len(promises) |-> Result(i)]

\* the join, the extraction of the signals and the verdict
Join ==
  /\ pc = "fetching"
  /\ Pending = {}
  /\ LET acc == ProcessResults(
                  Acc(allDeps, fileSignals, configSignals, offlineSignals),
                  SettledResults(fetchPromises, settled))
         verdict == ReadinessVerdict(acc)
     IN /\ allDeps' = acc.allDeps
        /\ fileSignals' = acc.fileSignals
        /\ configSignals' = acc.configSignals
        /\ offlineSignals' = acc.offlineSignals
        /\ report' = [report EXCEPT
                        !.evidence = verdict.evidence,
                        !.score = verdict.score,
                        !.architecture = verdict.architecture,
                        !.offline = OfflineVerdict(acc)]
  /\ pc' = "done"
  /\ UNCHANGED <<env, disk, rateLimited, defaultBranch, tree, pathPrefix,
                 fetchPromises, settled, calls, prevReport, clock>>
  /\ UNCHANGED appVars

\* the analyses of a project that are compared: a first one and a second one
Runs == {1, 2}

\* the same project is analysed again (App: reset, then handleAnalyze or
\* handleLocalAnalyze)
Rerun ==
  /\ pc = "done"
  /\ clock + 1 \in Runs
  /\ prevReport' = report
  /\ clock' = clock + 1
  /\ pc' = "idle"
  /\ rateLimited' = FALSE
  /\ defaultBranch' = Undefined
  /\ tree' = <<>>
  /\ pathPrefix' = <<>>
  /\ fetchPromises' = <<>>
  /\ settled' = <<>>
  /\ allDeps' = <<>>
  /\ fileSignals' = <<>>
  /\ configSignals' = <<>>
  /\ offlineSignals' = <<>>
  /\ report' = NoReport
  /\ calls' = <<>>
  /\ UNCHANGED <<env, disk>>
  /\ UNCHANGED appVars

Next ==
  \/ analyzeRepo
  \/ analyzeLocal
  \/ GetDetails
  \/ TreeScan
  \/ \E i \in DOMAIN fetchPromises : Fulfil(i)
  \/ FulfilNull
  \/ Join
  \/ Rerun

Spec == Init /\ [][Next]_vars

\* ------------------------------------------------------------------------
\* App.jsx: the component, its handlers and the analyses they await
\* ------------------------------------------------------------------------

PRELOADED_EXAMPLES ==
  {"https://github.com/reduxjs/redux-toolkit",
   "https://github.com/supabase/supabase"}

\* what the user types into the input
TypedUrls == {"", "github.com/owner/repository"}

\* a call of a handler that awaits the folder picker or the analysis
Request(id, target, at) == [id |-> id, target |-> target, at |-> at]

\* the input view is rendered: report ? <ReportView/> : (...)
InputView == uiReport = NoUiReport

AppInit ==
  /\ env = Provider("ONLINE", TRUE, "ok", TRUE, "main")
  /\ disk = <<>>
  /\ pc = "idle"
  /\ Fresh
  /\ prevReport = NoReport
  /\ clock = 1
  /\ AppFresh

\* handleAnalyze(repoUrl) up to its await
handleAnalyze(targetUrl) ==
  IF targetUrl = ""
  THEN UNCHANGED <<loading, error, uiReport, inflight, requests>>
  ELSE /\ requests < MaxRequests
       /\ loading' = TRUE
       /\ error' = "null"
       /\ uiReport' = NoUiReport
       /\ requests' = requests + 1
       /\ inflight' = inflight \cup {Request(requests + 1, targetUrl, "analysis")}

\* <Input onChange={(e) => setUrl(e.target.value)}>
setUrl(u) ==
  /\ InputView
  /\ mode = "online"
  /\ url' = u
  /\ UNCHANGED <<loading, error, uiReport, mode, inflight, requests>>
  /\ UNCHANGED analysisVars

\* the buttons of the mode switcher
setMode(m) ==
  /\ InputView
  /\ mode' = m
  /\ UNCHANGED <<url, loading, error, uiReport, inflight, requests>>
  /\ UNCHANGED analysisVars

\* <Button onClick={() => handleAnalyze()} disabled={loading}>
ExecuteScan ==
  /\ InputView
  /\ mode = "online"
  /\ ~loading
  /\ handleAnalyze(url)
  /\ UNCHANGED <<url, mode>>
  /\ UNCHANGED analysisVars

\* <button onClick={() => { setUrl(ex.url); handleAnalyze(ex.url); }}>
LoadExample(ex) ==
  /\ InputView
  /\ mode = "online"
  /\ url' = ex
  /\ handleAnalyze(ex)
  /\ UNCHANGED mode
  /\ UNCHANGED analysisVars

\* <Button onClick={handleLocalAnalyze} disabled={loading}>: handleLocalAnalyze
\* up to its first await, or to its end where the folder picker is missing
handleLocalAnalyze ==
  /\ InputView
  /\ mode = "offline"
  /\ ~loading
  /\ requests < MaxRequests
  /\ uiReport' = NoUiReport
  /\ requests' = requests + 1
  /\ \E supported \in BOOLEAN :
        IF supported
        THEN /\ loading' = TRUE
             /\ error' = "null"
             /\ inflight' = inflight \cup {Request(requests + 1, "folder", "picker")}
        ELSE /\ loading' = FALSE
             /\ error' = "Your browser does not support the File System Access API."
             /\ UNCHANGED inflight
  /\ UNCHANGED <<url, mode>>
  /\ UNCHANGED analysisVars

\* window.showDirectoryPicker() resolves: analyzeLocal starts
FolderChosen(r) ==
  /\ r \in inflight
  /\ r.at = "picker"
  /\ inflight' = (inflight \ {r}) \cup {Request(r.id, r.target, "analysis")}
  /\ UNCHANGED <<url, loading, error, uiReport, mode, requests>>
  /\ UNCHANGED analysisVars

\* window.showDirectoryPicker() rejects with AbortError
PickerCancelled(r) ==
  /\ r \in inflight
  /\ r.at = "picker"
  /\ inflight' = inflight \ {r}
  /\ loading' = FALSE
  /\ UNCHANGED <<url, error, uiReport, mode, requests>>
  /\ UNCHANGED analysisVars

\* the analysis awaited returns: setReport(result), finally setLoading(false)
AnalysisReturns(r) ==
  /\ r \in inflight
  /\ r.at = "analysis"
  /\ inflight' = inflight \ {r}
  /\ uiReport' = [id |-> r.id, target |-> r.target]
  /\ loading' = FALSE
  /\ UNCHANGED <<url, error, mode, requests>>
  /\ UNCHANGED analysisVars

\* the analysis awaited throws: setError(err.message), finally
\* setLoading(false)
AnalysisThrows(r) ==
  /\ r \in inflight
  /\ r.at = "analysis"
  /\ inflight' = inflight \ {r}
  /\ error' = "Project access failed."
  /\ loading' = FALSE
  /\ UNCHANGED <<url, uiReport, mode, requests>>
  /\ UNCHANGED analysisVars

\* <ReportView onReset={reset}>
reset ==
  /\ ~InputView
  /\ uiReport' = NoUiReport
  /\ url' = ""
  /\ error' = "null"
  /\ UNCHANGED <<loading, mode, inflight, requests>>
  /\ UNCHANGED analysisVars

AppNext ==
  \/ \E u \in TypedUrls : setUrl(u)
  \/ \E m \in {"online", "offline"} : setMode(m)
  \/ ExecuteScan
  \/ \E ex \in PRELOADED_EXAMPLES : LoadExample(ex)
  \/ handleLocalAnalyze
  \/ \E r \in inflight : FolderChosen(r)
  \/ \E r \in inflight : PickerCancelled(r)
  \/ \E r \in inflight : AnalysisReturns(r)
  \/ \E r \in inflight : AnalysisThrows(r)
  \/ reset

AppSpec == AppInit /\ [][AppNext]_vars

\* ------------------------------------------------------------------------
\* Properties
\* ------------------------------------------------------------------------

Done == pc = "done"

Evidence == report.evidence

HasEvidence(Test(_)) == \E i \in DOMAIN Evidence : Test(Evidence[i])

IsHigh(f) == f.risk = "High"

IsMedium(f) == f.risk = "Medium"

\* the two items the generic network pattern gives rise to
IsGenericNetwork(f) ==
  \/ f.signal = "Generic Network Call"
  \/ f.source = "Dependency" /\ f.arg = "GENERIC_NETWORK"

\* the offline tally, read off the recorded signals and the DependencySet
TallyOf(cat) ==
  \/ \E i \in DOMAIN offlineSignals : offlineSignals[i].category = cat
  \/ \E d \in Range(allDeps) : d \in OFFLINE_SIGNALS[cat]

\* C1: a report whose evidence holds a High-risk item has verdict Low and
\* offline status Online-Only, whatever else was found
C1_Veto ==
  Done /\ HasEvidence(IsHigh) =>
    report.score = "LOW" /\ report.offline.status = "Online-Only"

\* a High-risk item next to Medium evidence and a persistence signal
C1_Witness ==
  /\ Done
  /\ HasEvidence(IsHigh)
  /\ HasEvidence(IsMedium)
  /\ TallyOf("PERSISTENCE")
  /\ report.score = "LOW"

\* the generic network pattern of a source sample is all that matched
OnlyGenericNetwork ==
  /\ fileSignals # <<>>
  /\ \A i \in DOMAIN fileSignals : fileSignals[i].signal = "Generic Network Call"
  /\ configSignals = <<>>
  /\ offlineSignals = <<>>
  /\ allDeps = <<"GENERIC_NETWORK">>

\* C2: when only the generic network pattern matched, the verdict is
\* HumanReview (Ambiguous - Unidentified Network Calls), an Analyzer item
\* explains the ambiguity and the generic signal is not counted as Medium
C2_ScenarioD ==
  Done /\ OnlyGenericNetwork =>
    /\ report.score = "HUMAN_REVIEW"
    /\ report.architecture = "Ambiguous (Unidentified Network Calls)"
    /\ \E i \in DOMAIN Evidence : Evidence[i].source = "Analyzer"

\* the generic network pattern is the only risk-relevant signal of the run
OnlyGenericRisk ==
  /\ fileSignals # <<>>
  /\ \A i \in DOMAIN fileSignals : fileSignals[i].signal = "Generic Network Call"
  /\ configSignals = <<>>
  /\ \A d \in Range(allDeps) : RiskLookup(d) # NoRule => d = "GENERIC_NETWORK"

\* C3: generic network calls with a persistence signal classify as High,
\* Local-First with Sync, Offline-Capable or Partially Offline, never Low
C3_GenericIsolation ==
  Done /\ OnlyGenericRisk /\ TallyOf("PERSISTENCE") =>
    /\ report.score = "HIGH"
    /\ report.architecture = "Decentralized / Local-First (with Sync)"
    /\ report.offline.status \in {"Offline-Capable", "Partially Offline"}

NothingFound ==
  /\ allDeps = <<>>
  /\ fileSignals = <<>>
  /\ configSignals = <<>>
  /\ offlineSignals = <<>>

\* C4: the verdict is Unknown exactly when nothing was found, and then the
\* evidence list is empty and the offline status is Online-Only
C4_InsufficientEvidence ==
  Done =>
    /\ report.score = "UNKNOWN" <=> NothingFound
    /\ NothingFound => Evidence = <<>> /\ report.offline.status = "Online-Only"

\* nothing found although a file was read
C4_Witness ==
  /\ Done
  /\ report.score = "UNKNOWN"
  /\ \E i \in DOMAIN fetchPromises : Truthy(Result(i).content)

\* a manifest listing firebase is all that was found
OnlyFirebaseManifest ==
  /\ allDeps = <<"firebase">>
  /\ fileSignals = <<>>
  /\ configSignals = <<>>
  /\ offlineSignals = <<>>
  /\ \E i \in DOMAIN fetchPromises :
        /\ fetchPromises[i].name = <<"package.json">>
        /\ "firebase" \in Range(Result(i).content.deps)

\* C5: a manifest listing one High identifier gives Low, Online-Only and
\* exactly one evidence item, of risk High, citing the manifest file
C5_ScenarioA ==
  Done /\ OnlyFirebaseManifest =>
    /\ report.score = "LOW"
    /\ report.offline.status = "Online-Only"
    /\ Len(Evidence) = 1
    /\ Evidence[1].risk = "High"
    /\ Evidence[1].file = <<"package.json">>

IsSpecificMedium(f) ==
  /\ f.risk = "Medium"
  /\ f.source \in {"Code/Structure", "Config", "Dependency"}
  /\ ~IsGenericNetwork(f)

\* C7: no High evidence and a Medium item that is not the generic network
\* signal: the verdict is Medium (Hybrid)
C7_Hybrid ==
  Done /\ ~HasEvidence(IsHigh) /\ HasEvidence(IsSpecificMedium) =>
    /\ report.score = "MEDIUM"
    /\ report.architecture = "Hybrid (Client + Services)"

\* a structural marker next to generic network calls and persistence
C7_Witness ==
  /\ Done
  /\ \E i \in DOMAIN Evidence :
        Evidence[i].category = "Structure" /\ IsSpecificMedium(Evidence[i])
  /\ HasEvidence(IsGenericNetwork)
  /\ TallyOf("PERSISTENCE")
  /\ report.score = "MEDIUM"

IsBlocker(f) == f.category = "Critical Infrastructure" \/ f.risk = "High"

\* C8: the offline tier is Online-Only with a blocker, else Offline-Capable
\* with persistence, else Partially Offline with caching or native, else
\* Online-Only for want of a strategy; nothing else enters
C8_OfflineTier ==
  Done =>
    /\ HasEvidence(IsBlocker) => report.offline.status = "Online-Only"
    /\ ~HasEvidence(IsBlocker) /\ TallyOf("PERSISTENCE")
         => report.offline.status = "Offline-Capable"
    /\ ~HasEvidence(IsBlocker) /\ ~TallyOf("PERSISTENCE")
         /\ (TallyOf("CACHING") \/ TallyOf("NATIVE"))
         => report.offline.status = "Partially Offline"
    /\ ~HasEvidence(IsBlocker) /\ ~TallyOf("PERSISTENCE")
         /\ ~TallyOf("CACHING") /\ ~TallyOf("NATIVE")
         => /\ report.offline.status = "Online-Only"
            /\ report.offline.reason = "No persistence or caching strategy found."

\* a native shell next to generic network calls and Medium evidence
C8_Witness ==
  /\ Done
  /\ TallyOf("NATIVE")
  /\ HasEvidence(IsGenericNetwork)
  /\ HasEvidence(IsSpecificMedium)
  /\ report.offline.status = "Partially Offline"

\* C9: two analyses of the same tree and contents give the same evidence in
\* the same order, the same verdict, offline status and limitations,
\* whatever the order in which the reads complete
C9_Determinism ==
  Done /\ prevReport # NoReport =>
    /\ report.evidence = prevReport.evidence
    /\ report.score = prevReport.score
    /\ report.architecture = prevReport.architecture
    /\ report.offline = prevReport.offline
    /\ report.limitations = prevReport.limitations

\* a second analysis whose reads completed out of order
C9_Witness ==
  /\ Done
  /\ prevReport # NoReport
  /\ Len(report.evidence) >= 2
  /\ \E i, j \in DOMAIN settled : i < j /\ settled[i] > settled[j]

\* the signal or the identifier an evidence item comes from
Traceable(f) ==
  \/ /\ f.category = "Structure"
     /\ \E i \in DOMAIN tree : tree[i].path = f.file
     /\ \E c \in DOMAIN structureChecks : PatternTest(structureChecks[c], f.file)
  \/ /\ f.source = "Config"
     /\ \E i \in DOMAIN fetchPromises :
          /\ fetchPromises[i] = Promise(f.file, "config")
          /\ Truthy(Result(i).content)
  \/ /\ f.source = "Code/Structure"
     /\ f.category # "Structure"
     /\ \E i \in DOMAIN fetchPromises :
          /\ fetchPromises[i] = Promise(f.file, "code-scan")
          /\ f.line \in DOMAIN Result(i).content.lines
          /\ LineMatches(Result(i).content.lines[f.line]) # {}
  \/ /\ f.source = "Dependency"
     /\ f.arg \in Range(allDeps)
     /\ f.arg \in RiskKeys

\* C10: every evidence item comes from a signal of the run or from an
\* identifier of the DependencySet that is a key of the Rule Table
C10_Traceability ==
  Done => \A i \in DOMAIN Evidence : Traceable(Evidence[i])

\* the report cites an artifact: an evidence item, a recorded offline signal
\* or an offline capability it found
CitesArtifact ==
  \/ Evidence # <<>>
  \/ report.offline.evidence # <<>>
  \/ report.offline.status # "Online-Only"

\* C11: a Low verdict comes with a High-risk evidence item and a High verdict
\* with an artifact the report cites; nothing risky recognized is not enough
\* for High
C11_CitedArtifact ==
  Done =>
    /\ report.score = "LOW" => HasEvidence(IsHigh)
    /\ report.score = "HIGH" => CitesArtifact

InTree(path) == \E j \in DOMAIN tree : tree[j].path = path

FileCallsMade == {calls[i].path : i \in {k \in DOMAIN calls : calls[k].op = "file"}}

\* C12: without rate limiting every read asked of the provider is for a path
\* of the tree; with rate limiting every fixed candidate is read, listed or not
C12_ExistenceGate ==
  pc \in {"fetching", "done"} =>
    /\ ~rateLimited => \A p \in FileCallsMade : InTree(p)
    /\ rateLimited =>
         \A c \in Range(criticalFiles) : pathPrefix \o <<c>> \in FileCallsMade

\* a rate-limited analysis with a listing reads candidates the tree lists
\* and candidates it does not list
C12_Witness ==
  /\ Done
  /\ rateLimited
  /\ tree # <<>>
  /\ \E p \in FileCallsMade : InTree(p)
  /\ \E p \in FileCallsMade : ~InTree(p)

Succeeded(i) == Truthy(Result(i).content)

\* what the result of read i adds to the signals and the DependencySet
Contributed(i) ==
  LET r == Result(i)
  IN /\ r.type = "config" =>
          \E k \in DOMAIN configSignals : configSignals[k].file = r.name
     /\ (r.type \in {"dep", "monorepo-dep"} /\ EndsWith(r.name, "json")
           /\ r.content.kind = "json" /\ r.content.ok) =>
          Range(r.content.deps) \subseteq Range(allDeps)
     /\ r.type = "code-scan" =>
          \A l \in DOMAIN r.content.lines :
             "generic" \in LineMatches(r.content.lines[l]) =>
               \E k \in DOMAIN fileSignals :
                  /\ fileSignals[k].signal = "Generic Network Call"
                  /\ fileSignals[k].file = r.name
                  /\ fileSignals[k].line = l

\* C13: no read ends the analysis; every read that succeeded contributes,
\* whatever the other reads returned, and only those reads contribute
C13_SettleAll ==
  /\ pc = "failed" => fetchPromises = <<>>
  /\ Done =>
       /\ \A i \in DOMAIN fetchPromises : Succeeded(i) => Contributed(i)
       /\ \A k \in DOMAIN configSignals :
            \E i \in DOMAIN fetchPromises :
               Succeeded(i) /\ fetchPromises[i].name = configSignals[k].file
       /\ \A k \in DOMAIN offlineSignals :
            \E i \in DOMAIN fetchPromises :
               Succeeded(i) /\ fetchPromises[i].name = offlineSignals[k].file

\* a read asked of the provider returned nothing and a later one contributed
C13_Witness ==
  /\ Done
  /\ \E i, j \in DOMAIN fetchPromises :
       /\ i < j
       /\ ~Succeeded(i)
       /\ pathPrefix \o fetchPromises[i].name \in FileCallsMade
       /\ Succeeded(j)
       /\ fetchPromises[j].type = "config"
       /\ Contributed(j)

Planned(type) ==
  Cardinality({i \in DOMAIN fetchPromises : fetchPromises[i].type = type})

FileCallCount == Cardinality({i \in DOMAIN calls : calls[i].op = "file"})

\* C14: an analysis plans at most 15 nested-manifest reads and 20 source
\* reads and asks the provider for at most 9 + 35 files, whatever the tree
C14_BoundedReads ==
  pc \in {"fetching", "done"} =>
    /\ Planned("monorepo-dep") <= 15
    /\ Planned("code-scan") <= 20
    /\ FileCallCount <= Len(criticalFiles) + 35
    /\ Len(criticalFiles) = 9

\* a tree with more nested manifests and source files than are read, and
\* every read allowed made
C14_Witness ==
  /\ Done
  /\ Cardinality({i \in DOMAIN tree : EndsWith(tree[i].path, "package.json")}) > 15
  /\ Cardinality({i \in DOMAIN tree : EndsWith(tree[i].path, ".js")}) > 20
  /\ Planned("monorepo-dep") = 15
  /\ Planned("code-scan") = 20
  /\ FileCallCount = 44

\* C15: for a non-empty tree pathPrefix is the first folder of the first path
\* exactly when that path has a separator and every path starts with that
\* folder, and is empty otherwise; putting the prefix back on a stripped
\* path gives the path of the tree again, which the existence check finds
C15_PrefixDetection ==
  pc \in {"fetching", "done"} /\ tree # <<>> =>
    LET first == tree[1].path
        shared == /\ Len(first) > 1
                  /\ \A i \in DOMAIN tree :
                       Len(tree[i].path) > 1 /\ tree[i].path[1] = first[1]
    IN /\ shared => pathPrefix = <<first[1]>>
       /\ ~shared => pathPrefix = <<>>
       /\ \A i \in DOMAIN tree :
            LET logical == StripPrefix(tree[i].path, pathPrefix)
            IN /\ pathPrefix \o logical = tree[i].path
               /\ Len(logical) = Len(tree[i].path) - Len(pathPrefix)
               /\ tree[i].type = "file" => fileExists(tree, pathPrefix, logical)

\* an unwrapped tree of several entries, a root file of which was read
C15_Witness ==
  /\ Done
  /\ pathPrefix # <<>>
  /\ Len(tree) >= 2
  /\ \E i \in DOMAIN fetchPromises :
       Len(fetchPromises[i].name) = 1 /\ Succeeded(i)

\* the metadata request got no project
MetadataFailed ==
  (IF env.type = "ONLINE" THEN getRepoDetails(env) ELSE getProjectDetails).isNull

\* C16: an unresolved locator fails the analysis before any request, missing
\* metadata fails it before the tree and file requests, no report is
\* returned then, and an analysis fails in these two cases only
C16_TerminalErrors ==
  /\ pc = "failed" =>
       /\ report = NoReport
       /\ (env.type = "ONLINE" /\ ~env.urlOk) \/ MetadataFailed
       /\ (env.type = "ONLINE" /\ ~env.urlOk) => calls = <<>>
       /\ ~(env.type = "ONLINE" /\ ~env.urlOk) => calls = <<Call("details", <<>>)>>
  /\ (env.type = "ONLINE" /\ ~env.urlOk) => calls = <<>> /\ pc \in {"idle", "failed"}
  /\ MetadataFailed => \A i \in DOMAIN calls : calls[i].op = "details"
  /\ Done => report # NoReport /\ ~MetadataFailed

\* the project could not be reached: the metadata request was the only one
C16_Witness ==
  /\ pc = "failed"
  /\ env.urlOk
  /\ MetadataFailed
  /\ calls = <<Call("details", <<>>)>>

RateLimitNote ==
  "GitHub API Rate Limit active. Switching to limited Blind Scan."

MetadataThrottled == env.type = "ONLINE" /\ env.urlOk /\ env.meta = "rateLimited"

\* the listing request of the remote provider was made and gave no listing
TreeThrottled ==
  /\ env.type = "ONLINE"
  /\ pc \in {"fetching", "done"}
  /\ RemoteGetTree(env, disk, defaultBranch) = NoTree

\* C17: a throttled metadata or listing request does not fail the analysis:
\* it goes on rate limited, with branch master after a throttled metadata
\* request, and the report returned records the rate limit
C17_ThrottlingDegrades ==
  /\ MetadataThrottled =>
       /\ pc # "failed"
       /\ pc \in {"tree", "fetching", "done"} =>
            rateLimited /\ defaultBranch = "master"
  /\ TreeThrottled => rateLimited /\ tree = <<>>
  /\ Done /\ (MetadataThrottled \/ TreeThrottled) =>
       /\ report # NoReport
       /\ RateLimitNote \in Range(report.limitations)

\* a report with evidence after a throttled metadata request
C17_Witness ==
  /\ Done
  /\ MetadataThrottled
  /\ Evidence # <<>>
  /\ RateLimitNote \in Range(report.limitations)

\* the identifiers a root manifest lists: the keys of dependencies and
\* devDependencies (Node), the requirement lines (Python), the keys of
\* require (PHP)
ListedIn(name, c) ==
  CASE name = <<"package.json">> -> Range(c.deps)
    [] name = <<"requirements.txt">> -> Range(c.lines)
    [] name = <<"composer.json">> -> Range(c.require) \cup Range(c.deps)
    [] OTHER -> {}

DependencyItem(d) ==
  \E k \in DOMAIN Evidence :
     Evidence[k].source = "Dependency" /\ Evidence[k].arg = d

\* C18: the identifiers of a root manifest of any of the three ecosystems
\* that was read are in the DependencySet, and those that are keys of the
\* Rule Table have their evidence item
C18_ManifestEcosystems ==
  Done =>
    \A i \in DOMAIN fetchPromises :
       Succeeded(i) =>
         \A d \in ListedIn(fetchPromises[i].name, Result(i).content) :
            /\ d \in Range(allDeps)
            /\ d \in RiskKeys => DependencyItem(d)

\* C19: the Dependency items of the evidence and the identifiers of the
\* DependencySet that are keys of the Rule Table correspond one to one; an
\* identifier that is not a key has no item
C19_AggregatorLookup ==
  Done =>
    /\ \A d \in Range(allDeps) \cap RiskKeys :
         Cardinality({k \in DOMAIN Evidence :
                        Evidence[k].source = "Dependency" /\ Evidence[k].arg = d}) = 1
    /\ \A k \in DOMAIN Evidence :
         Evidence[k].source = "Dependency" =>
           Evidence[k].arg \in Range(allDeps) \cap RiskKeys

\* C20: the score of a report is one of the readiness levels, its offline
\* status one of the three tiers, and every evidence item is High or Medium
C20_ReportSchema ==
  Done =>
    /\ report.score \in {"HIGH", "MEDIUM", "LOW", "HUMAN_REVIEW", "UNKNOWN"}
    /\ report.offline.status \in
         {"Offline-Capable", "Partially Offline", "Online-Only"}
    /\ \A k \in DOMAIN Evidence : Evidence[k].risk \in {"High", "Medium"}

\* the listing consists of entries that are all inside one folder, and
\* taking them out of it leaves a listing without a common folder
WrappedListing ==
  /\ pc \in {"fetching", "done"}
  /\ tree # <<>>
  /\ \A i \in DOMAIN tree : StartsWith(tree[i].path, <<tree[1].path[1]>>)
  /\ DetectPrefix([i \in DOMAIN tree |->
                     Entry(Tail(tree[i].path), tree[i].type)]) = <<>>

\* the files of the project taken out of the folder that wraps them
Inner == [i \in DOMAIN disk |-> File(Tail(disk[i].path), disk[i].content)]

WithoutUnwrapNote(l) ==
  LET Other(x) == x # "Auto-unwrapped folder" IN SelectSeq(l, Other)

\* C21: prefix transparency. When the listing is that of a project without
\* a common folder wrapped under a folder p, the analysis plans the same
\* logical reads and reports the same verdict, offline status and evidence
\* as the analysis of the project itself, no evidence item names a file
\* under p/, and the limitations differ by the unwrap note only.
C21_PrefixTransparency ==
  (Done /\ WrappedListing) =>
    LET r == runAnalysis(env, Inner)
    IN /\ fetchPromises = r.plan
       /\ report.score = r.score
       /\ report.architecture = r.architecture
       /\ report.offline = r.offline
       /\ report.evidence = r.evidence
       /\ \A i \in DOMAIN Evidence : ~StartsWith(Evidence[i].file, pathPrefix)
       /\ WithoutUnwrapNote(report.limitations) = WithoutUnwrapNote(r.limitations)

\* the listing could not be obtained, or has no entry
ListingUntrusted == pc \in {"fetching", "done"} /\ tree = <<>>

BlindPlan ==
  \A f \in Range(criticalFiles) : \E i \in DOMAIN fetchPromises :
     fetchPromises[i].name = <<f>>

\* C22: untrusted listing. When the tree fetch fails or returns an empty
\* listing, the run is degraded: every fixed candidate is read blindly, the
\* limitation is recorded and no prefix is detected; and a degraded run
\* stays degraded until it ends.
C22_UntrustedListing ==
  /\ [](ListingUntrusted =>
          /\ rateLimited
          /\ BlindPlan
          /\ RateLimitNote \in Range(report.limitations)
          /\ pathPrefix = <<>>)
  /\ [][(rateLimited /\ pc \in {"tree", "fetching"}) => rateLimited']_vars

\* what an entry of the limitations tells of: the mode of the analysis,
\* the unwrapped folder, or a degradation
ToldBy(entry) ==
  CASE entry = RateLimitNote -> "AccessThrottled"
    [] entry = "Auto-unwrapped folder" -> "unwrap"
    [] OTHER -> "mode"

Limited(kind) ==
  \E i \in DOMAIN report.limitations : ToldBy(report.limitations[i]) = kind

\* a planned read found nothing at its path
ReadNotFound ==
  \E i \in DOMAIN fetchPromises : Result(i).content = Null

\* the content of a planned manifest is not JSON
ReadParseFailure ==
  \E i \in DOMAIN fetchPromises :
     /\ Result(i).type \in {"dep", "monorepo-dep"}
     /\ EndsWith(Result(i).name, "json")
     /\ Result(i).content = BadJson

\* C23: limitations are never hidden. In a report returned, a planned read
\* that found nothing, a manifest that could not be decoded, a throttled
\* request and the verdict Unknown each have an entry in the limitations.
C23_LimitationsNeverHidden ==
  Done =>
    /\ ReadNotFound => Limited("NotFound")
    /\ ReadParseFailure => Limited("ParseFailure")
    /\ (MetadataThrottled \/ TreeThrottled) => Limited("AccessThrottled")
    /\ report.score = ReadinessLevel("UNKNOWN") => Limited("Unknown")

\* file j of the project is a manifest that was read and is not JSON
Undecodable(j) ==
  /\ disk[j].content = BadJson
  /\ \E i \in DOMAIN fetchPromises :
        /\ pathPrefix \o fetchPromises[i].name = disk[j].path
        /\ fetchPromises[i].type \in {"dep", "monorepo-dep"}
        /\ Result(i).content = BadJson

\* the project without its file j
Without(j) == SubSeq(disk, 1, j - 1) \o SubSeq(disk, j + 1, Len(disk))

\* the report says what the analysis r says
SameReport(r) ==
  /\ report.evidence = r.evidence
  /\ report.score = r.score
  /\ report.architecture = r.architecture
  /\ report.offline = r.offline
  /\ report.limitations = r.limitations

Planning == pc \in {"fetching", "done"}

\* the entries of the tree that are sampled as source files
Sampled ==
  {n \in DOMAIN tree :
     \E i \in DOMAIN fetchPromises :
        /\ fetchPromises[i].type = "code-scan"
        /\ pathPrefix \o fetchPromises[i].name = tree[n].path}

IsSourceFile(f) ==
  /\ f.type = "file"
  /\ \E x \in {".js", ".ts", ".jsx", ".tsx"} : EndsWith(f.path, x)

\* a js/ts/jsx/tsx file outside the build-output and dependency-cache
\* folders
InOutputFolder(f) ==
  \E i \in 1..(Len(f.path) - 1) : f.path[i] \in {"node_modules", "dist", "build"}

EligibleByFolder == {n \in DOMAIN tree : IsSourceFile(tree[n]) /\ ~InOutputFolder(tree[n])}

\* the entries S are the (at most SourceLimit) shortest of the entries E,
\* ties kept in tree order
ShortestFirst(S, E) ==
  /\ S \subseteq E
  /\ Cardinality(S) =
       (IF Cardinality(E) < SourceLimit THEN Cardinality(E) ELSE SourceLimit)
  /\ \A a \in E \ S : \A b \in S :
        \/ PathLen(tree[a].path) > PathLen(tree[b].path)
        \/ PathLen(tree[a].path) = PathLen(tree[b].path) /\ a > b

\* C25: shortest path first. The sampled source files are the (at most 20)
\* eligible files of the tree with the shortest paths, ties in tree order,
\* where eligible means a js/ts/jsx/tsx file outside the build-output and
\* dependency-cache folders.
C25_ShortestPathFirst == Planning => ShortestFirst(Sampled, EligibleByFolder)

\* line k of the source file read by promise i matches the offline
\* vocabulary cat
OfflineMatch(i, k, cat) ==
  /\ Result(i).type = "code-scan"
  /\ Truthy(Result(i).content)
  /\ k \in DOMAIN Result(i).content.lines
  /\ cat \in LineMatches(Result(i).content.lines[k])

OfflineCats == Range(offlinePatterns)

\* the project with every source line that matches an offline vocabulary
\* replaced by a line that matches nothing
WithoutOfflineMatches ==
  LET Plain(l) == IF LineMatches(l) \cap OfflineCats # {} THEN "const x = 1" ELSE l
  IN [j \in DOMAIN disk |->
        File(disk[j].path,
             [disk[j].content EXCEPT
                !.lines = [k \in DOMAIN disk[j].content.lines |->
                             Plain(disk[j].content.lines[k])]])]

RiskCount(ev, risk) == Cardinality({i \in DOMAIN ev : ev[i].risk = risk})

PlannedNames(types) ==
  {fetchPromises[i].name :
     i \in {k \in DOMAIN fetchPromises : fetchPromises[k].type \in types}}

\* the requests for file contents made so far: one for every branch tried
\* by every read passed to the remote provider, one for every read passed
\* to the local one
ContentRequests ==
  LET reads == SelectSeq(calls, LAMBDA c : c.op = "file")
  IN IF env.type = "ONLINE" THEN Len(reads) * Len(RawFetches(defaultBranch))
     ELSE Len(reads)

\* C27: no retry, no duplicate read. The fixed candidates, the nested
\* manifests and the source samples planned are pairwise disjoint and no
\* path is planned or requested twice; every read makes one request at
\* most; and once the reads are issued no request is made again, whatever
\* they return.
C27_NoRetryNoDuplicate ==
  /\ [](Planning =>
          /\ \A i, j \in DOMAIN fetchPromises :
                fetchPromises[i].name = fetchPromises[j].name => i = j
          /\ PlannedNames({"dep", "config"}) \cap PlannedNames({"monorepo-dep"}) = {}
          /\ PlannedNames({"dep", "config"}) \cap PlannedNames({"code-scan"}) = {}
          /\ PlannedNames({"monorepo-dep"}) \cap PlannedNames({"code-scan"}) = {}
          /\ <<"package.json">> \notin PlannedNames({"monorepo-dep"})
          /\ \A a, b \in DOMAIN calls :
                (calls[a].op = "file" /\ calls[a] = calls[b]) => a = b
          /\ ContentRequests <= Len(fetchPromises))
  /\ [][pc = "fetching" => calls' = calls]_vars

\* a run that read a root manifest and a nested one and ended although a
\* read returned nothing
C27_Witness ==
  /\ Done
  /\ <<"package.json">> \in PlannedNames({"dep"})
  /\ PlannedNames({"monorepo-dep"}) # {}
  /\ FileCallCount >= 2
  /\ \E i \in DOMAIN fetchPromises : ~Truthy(Result(i).content)

\* the entries of the tree whose path matches structure check c
MarkerHits(c) ==
  {n \in DOMAIN tree : PatternTest(structureChecks[c], tree[n].path)}

\* the evidence items of structure check c
MarkerItems(c) ==
  {i \in DOMAIN Evidence :
     /\ Evidence[i].category = "Structure"
     /\ Evidence[i].signal = structureChecks[c].signal}

\* C28: structural markers depend on the tree only. In a report returned,
\* every marker kind matched by some path of the tree has exactly one
\* Structure evidence item, for the first matching path in tree order, and
\* a kind matched by none has no item, whatever the reads returned; and a
\* report with a structural marker has verdict Medium or Low.
C28_StructuralMarkers ==
  Done =>
    \A c \in DOMAIN structureChecks :
       IF MarkerHits(c) = {} THEN MarkerItems(c) = {}
       ELSE /\ Cardinality(MarkerItems(c)) = 1
            /\ \A i \in MarkerItems(c) :
                  /\ Evidence[i].risk = "Medium"
                  /\ \E n \in MarkerHits(c) :
                        /\ Evidence[i].file = tree[n].path
                        /\ \A m \in MarkerHits(c) : n <= m
            /\ report.score \in {ReadinessLevel("MEDIUM"), ReadinessLevel("LOW")}

\* a report for a tree where two paths match the same marker and every read
\* returned nothing
C28_Witness ==
  /\ Done
  /\ \E c \in DOMAIN structureChecks : Cardinality(MarkerHits(c)) >= 2
  /\ fetchPromises # <<>>
  /\ \A i \in DOMAIN fetchPromises : ~Truthy(Result(i).content)

\* C29: the listing of the local provider starts with an entry of the
\* chosen folder itself, so the analysis of a local folder detects no
\* prefix and adds no unwrap note, and it is never rate limited.
C29_LocalNeverUnwraps ==
  env.type = "OFFLINE" =>
    /\ tree # <<>> => Len(tree[1].path) = 1
    /\ pathPrefix = <<>>
    /\ "Auto-unwrapped folder" \notin Range(report.limitations)
    /\ ~rateLimited
    /\ RateLimitNote \notin Range(report.limitations)

\* a report for a local folder whose files are all inside one subfolder
C29_Witness ==
  /\ Done
  /\ env.type = "OFFLINE"
  /\ Len(tree) > 1
  /\ \A i \in DOMAIN disk : StartsWith(disk[i].path, <<"repo">>)
  /\ Evidence # <<>>

\* C30: in the App at most one analysis is in flight: loading is true
\* exactly while a handler awaits, no analysis is requested while loading
\* is true, and once every handler has returned the report displayed is
\* the one of the analysis requested last.
C30_OneAnalysisInFlight ==
  /\ [](/\ Cardinality(inflight) <= 1
        /\ loading <=> inflight # {}
        /\ (inflight = {} /\ uiReport # NoUiReport) => uiReport.id = requests)
  /\ [][loading => requests' = requests]_vars

\* the report returned by the steps of an analysis is the one runAnalysis
\* computes
RunAnalysisAgrees ==
  Done =>
    LET r == runAnalysis(env, disk)
    IN /\ ~r.failed
       /\ r.plan = fetchPromises
       /\ r.evidence = report.evidence
       /\ r.score = report.score
       /\ r.architecture = report.architecture
       /\ r.offline = report.offline
       /\ r.limitations = report.limitations

====
